---- MODULE Spec2Model ----
(***************************************************************************)
(* Solana Signal Watcher: the fetch helpers (safeFetch, fetchJSON,         *)
(* fetchLimited), the liquidity failover pollers (pollOnce v5.3.4,         *)
(* pollOnce v5.3.2, pollDEX v5.3, pollDEX v5.1) with their snapshot cache  *)
(* and readers, the pair poller (pollPairs / pollSources) and the wallet   *)
(* poller (pollWallets / fetchWalletSwaps).                                *)
(*                                                                         *)
(* Node runs every handler to its next await without interleaving, so one  *)
(* action is one event (a timer, a network event, a request) together with *)
(* the synchronous continuation it resumes.                                *)
(***************************************************************************)
EXTENDS Integers, Sequences, FiniteSets, TLC

\* ---------------------------------------------------------------- bounds
\* scheduler invocations of the liquidity poll function
MaxCycles == 2
\* largest array length an upstream response carries
MaxCount == 1
\* largest clock value
MaxTime == 1
\* largest advance of the clock while a liquidity poll awaits a fetch
MaxLag == 1
\* helper calls made in the stand-alone fetch specification
MaxCalls == 2
\* largest body chunk, in bytes
MaxChunk == 2
\* largest response body, in bytes
MaxBody == 3

\* invocations of pollPairs
MaxPairCycles == 2
\* distinct addresses one body names to the pair poller
MaxNamed == 1
\* invocations of pollWallets
MaxWalletCycles == 2
\* transactions in one answer of the transaction feed
MaxTx == 1
\* largest swapCount a record reaches
MaxSwaps == 2
\* transactions a quiet feed holds
MaxFeed == 2

\* MAX_BYTES (an injected value; 250000 by default), scaled to the chunk sizes
MAX_BYTES == 2

VARIABLES
    call,       \* SpecFetch: the helper call in flight (or the last one returned)
    ncalls,     \* SpecFetch: helper calls made so far
    now,        \* the wall clock (Date.now()), non-decreasing
    variant,    \* which server file is deployed: "v534", "v532", "v53", "v51";
                \* "watch" (pollPairs), "server" (pollSources); "off": neither poller
    CACHE,      \* the snapshot object
    isPolling,  \* pollOnce's re-entrancy flag
    cyc,        \* the invocations of the poll function: position and locals
    nInvoked,   \* invocations the scheduler has made
    writer,     \* history: the invocation that wrote each CACHE field (0: initial)
    cacheLog,   \* history: what the invocation that wrote CACHE had fetched
    lastRead,   \* what the last snapshot read returned: each field's writer
    heliusKey,  \* HELIUS_API_KEY is set
    feed,       \* the Helius endpoint: address -> the answers it may give
    wallets,    \* the wallet ledger: address -> {label, trades}
    wfetch,     \* the fetchWalletSwaps calls made: [cycle, address, stage]
    wcyc,       \* the invocations of pollWallets: "none", "running", "done", "rejected"
    wInvoked,   \* invocations of pollWallets the scheduler has made
    pairCache,  \* the pair cache: {tokens: address -> entry, lastPoll}
    pcyc,       \* the invocations of pollPairs: position and the two fetches
    pInvoked,   \* invocations of pollPairs the scheduler has made
    lastOp      \* SpecLedger: the ledger operation applied, with its input

\* ------------------------------------------------------------ JSON values
\* The parsed body of a response, by the shapes the code probes:
\*   null | {} (no pairs, data or length) | {pairs:[n]} | {data:[n]} | [n]
\*   | {length: n} | {length: "n"} | {data: {length: n}} | {data: {length: "n"}}
\* The last four are objects that are no arrays and carry a length of their
\* own, a number or a string of digits (n is the number the digits spell).
\* "undefined" is the data property of a failed outcome {ok:false, error}.
NoData == [shape |-> "undefined", n |-> 0]

Counts == 0..MaxCount

\* The count of the spec's example, for a list of pairs
ExampleCount == 5

\* The numbers and the digit strings a length property that is no array length
\* takes.
LengthNumbers == {4}

LengthTexts == {7}

Bodies ==
    {[shape |-> "null", n |-> 0], [shape |-> "object", n |-> 0]}
    \cup {[shape |-> s, n |-> m] : s \in {"pairs", "data", "array"}, m \in Counts}
    \cup {[shape |-> "pairs", n |-> ExampleCount]}
    \cup {[shape |-> s, n |-> m] : s \in {"length", "dataLength"}, m \in LengthNumbers}
    \cup {[shape |-> s, n |-> m] : s \in {"lengthText", "dataLengthText"}, m \in LengthTexts}

\* The bodies that differ for a version. v5.1 and v5.3 read only truthiness
\* and .length, so a non-array object with no length stands for every such
\* object; v5.3.4 reads .pairs, .data.length and Array.isArray, so {} stands
\* for the objects whose only property is a length.
BodiesOf(v) ==
    CASE v \in {"v51", "v53"} ->
             {b \in Bodies : b.shape \in {"null", "object", "array", "length", "lengthText"}}
      [] v = "v534" -> {b \in Bodies : b.shape \notin {"length", "lengthText"}}
      [] OTHER -> Bodies

\* The value of a JS expression that is a number or a string; a string is
\* kept as the sequence of its characters.
JSNumber(n) == [str |-> FALSE, n |-> n, text |-> <<>>]

JSString(t) == [str |-> TRUE, n |-> 0, text |-> t]

DigitChar(d) == <<"0", "1", "2", "3", "4", "5", "6", "7", "8", "9">>[d + 1]

\* The decimal digits of a natural number
RECURSIVE Digits(_)
Digits(n) ==
    IF n < 10 THEN <<DigitChar(n)>> ELSE Digits(n \div 10) \o <<DigitChar(n % 10)>>

\* String(v)
StringOf(v) ==
    IF v.str THEN v.text
    ELSE IF v.n < 0 THEN <<"-">> \o Digits(-v.n) ELSE Digits(v.n)

\* a + b: the sum of two numbers; with a string on either side, the
\* concatenation of the two as strings
Plus(a, b) ==
    IF a.str \/ b.str THEN JSString(StringOf(a) \o StringOf(b)) ELSE JSNumber(a.n + b.n)

\* v || 0: 0 and the empty string are falsy
OrZero(v) ==
    IF (v.str /\ v.text = <<>>) \/ (~v.str /\ v.n = 0) THEN JSNumber(0) ELSE v

\* {ok:false, error: e.message}
Failure == [ok |-> FALSE, data |-> NoData]

\* {ok:true, data}
Success(d) == [ok |-> TRUE, data |-> d]

\* ------------------------------------------------------- the fetch helpers
\* A helper call: stage "headers" (awaiting fetch()), "body" (awaiting
\* res.json() or the stream's end) or "returned"; timer: the abort timer is
\* armed; status: the response's status class once the headers are in; total:
\* bytes counted (and buffered) by fetchLimited; destroyed: fetchLimited has
\* destroyed the body stream; text: the addresses the buffered chunks hold, each
\* once, in the order of their first appearance (what extractAddressesLimited
\* reads of them).
NoCall ==
    [helper |-> "none", stage |-> "returned", timer |-> FALSE, status |-> "none",
     total |-> 0, destroyed |-> FALSE, text |-> <<>>, result |-> Failure]

\* safeFetch: new AbortController, setTimeout(abort, timeoutMs), fetch(url)
safeFetch ==
    [helper |-> "safeFetch", stage |-> "headers", timer |-> TRUE, status |-> "none",
     total |-> 0, destroyed |-> FALSE, text |-> <<>>, result |-> Failure]

\* fetchJSON of v5.1: fetch(url, {timeout}) and no abort timer of its own
fetchJSON ==
    [helper |-> "fetchJSON", stage |-> "headers", timer |-> FALSE, status |-> "none",
     total |-> 0, destroyed |-> FALSE, text |-> <<>>, result |-> Failure]

\* fetchJSON of v5.3: new AbortController, setTimeout(abort, timeoutMs),
\* fetch(url, {signal})
fetchJSON53 ==
    [helper |-> "fetchJSON53", stage |-> "headers", timer |-> TRUE, status |-> "none",
     total |-> 0, destroyed |-> FALSE, text |-> <<>>, result |-> Failure]

\* fetchLimited: new AbortController, setTimeout(abort, timeoutMs), fetch(url)
fetchLimited ==
    [helper |-> "fetchLimited", stage |-> "headers", timer |-> TRUE, status |-> "none",
     total |-> 0, destroyed |-> FALSE, text |-> <<>>, result |-> Failure]

\* The helper returns r. A timer still armed at that point (safeFetch's catch
\* does not clear it) later aborts a settled request, which has no effect: it
\* is dropped here.
Return(c, r) == [c EXCEPT !.stage = "returned", !.timer = FALSE, !.result = r]

\* The text fetchLimited resolves with: the bytes buffered (chunks joined).
Payload(c) == [ok |-> TRUE, data |-> [shape |-> "text", n |-> c.total]]

\* `__ERROR__${String(err)}`
ErrorText == [ok |-> FALSE, data |-> [shape |-> "error", n |-> 0]]

\* fetch() rejects (DNS, connect, reset): the catch block returns the failure.
OnReject(c) ==
    IF c.helper = "fetchLimited" THEN Return(c, ErrorText) ELSE Return(c, Failure)

\* safeFetch after `await fetch`: clearTimeout, then a non-2xx status throws
\* into the catch block; otherwise res.json() is awaited with no timer left.
safeFetchOnHeaders(c, st) ==
    IF st = "2xx"
    THEN [c EXCEPT !.stage = "body", !.timer = FALSE, !.status = st]
    ELSE Return([c EXCEPT !.status = st], Failure)

\* fetchJSON (v5.1) after `await fetch`: the same status test, no timer.
fetchJSONOnHeaders(c, st) ==
    IF st = "2xx"
    THEN [c EXCEPT !.stage = "body", !.status = st]
    ELSE Return([c EXCEPT !.status = st], Failure)

\* fetchJSON (v5.3) after `await fetch`: clearTimeout, then the status test;
\* res.json() is awaited with no timer left.
fetchJSON53OnHeaders(c, st) ==
    IF st = "2xx"
    THEN [c EXCEPT !.stage = "body", !.timer = FALSE, !.status = st]
    ELSE Return([c EXCEPT !.status = st], Failure)

\* fetchLimited after `await fetch`: res.ok is not looked at; the body is
\* streamed with the timer still armed (it is cleared in `finally`).
fetchLimitedOnHeaders(c, st) == [c EXCEPT !.stage = "body", !.status = st]

OnHeaders(c, st) ==
    CASE c.helper = "safeFetch" -> safeFetchOnHeaders(c, st)
      [] c.helper = "fetchJSON" -> fetchJSONOnHeaders(c, st)
      [] c.helper = "fetchJSON53" -> fetchJSON53OnHeaders(c, st)
      [] OTHER -> fetchLimitedOnHeaders(c, st)

\* res.json() resolves with the parsed body.
OnJSON(c, d) == Return(c, Success(d))

\* res.json() rejects: a malformed body or a stream error while reading it.
OnBadBody(c) == Return(c, Failure)

\* The addresses a body can name.
PairAddrs == {"p1", "p2"}

\* What one chunk completes: no address, or one.
ChunkTexts == {<<>>} \cup {<<a>> : a \in PairAddrs}

Range(f) == {f[x] : x \in DOMAIN f}

\* chunks.push(chunk), seen as the addresses the buffer names
AppendNew(text, as) ==
    IF as = <<>> \/ as[1] \in Range(text) THEN text ELSE text \o as

\* fetchLimited's "data" listener: buffer the chunk, count it, and destroy the
\* stream once the running total has reached maxBytes. The listener
\* stays attached: chunks delivered after the destroy are buffered as well.
OnChunk(c, len, as) ==
    [c EXCEPT !.text = AppendNew(c.text, as),
              !.total = c.total + len,
              !.destroyed = (c.total + len >= MAX_BYTES)]

\* fetchLimited's "end" listener resolves with the buffered text, also when the
\* stream has been destroyed.
OnEnd(c) == Return(c, Payload(c))

\* fetchLimited's "error" listener rejects; the catch block returns the error.
OnStreamError(c) == Return(c, ErrorText)

\* The abort timer fires: controller.abort(). While fetch() is pending it
\* rejects with AbortError; while fetchLimited streams the body node-fetch
\* emits "error" on it (also on a destroyed stream), which rejects.
OnTimeout(c) ==
    IF c.helper = "fetchLimited" THEN Return(c, ErrorText) ELSE Return(c, Failure)

Statuses == {"2xx", "non2xx"}

\* ------------------------------------------------- SpecFetch: one helper
vars ==
    <<call, ncalls, now, variant, CACHE, isPolling, cyc, nInvoked, writer, cacheLog,
      lastRead, heliusKey, feed, wallets, wfetch, wcyc, wInvoked, pairCache, pcyc, pInvoked,
      lastOp>>

fetchVars == <<call, ncalls>>

walVars == <<heliusKey, feed, wallets, wfetch, wcyc, wInvoked>>

auxVars == <<pairCache, pcyc, pInvoked, lastOp>>

liqVars == <<variant, CACHE, isPolling, cyc, nInvoked, writer, cacheLog, lastRead>>

InitFetch == call = NoCall /\ ncalls = 0

\* ------------------------------------------------- the wallet ledger
Addrs == {"w1", "w2"}

Mints == {"m1", "m2"}

\* tx.description and tx.type as the feed sends them ("": absent or empty)
Descriptions == {"", "swapped 1 SOL on Orca", "transferred 1 SOL"}

Types == {"", "SWAP", "TRANSFER"}

\* The (description, type) pairs the model feeds: a swap told by its
\* description, a swap told by its type alone, and events that are no swaps,
\* among them one whose description hides a type SWAP.
SwapKinds == {<<"swapped 1 SOL on Orca", "TRANSFER">>, <<"", "SWAP">>}

OtherKinds ==
    {<<"", "">>, <<"", "TRANSFER">>,
     <<"transferred 1 SOL", "SWAP">>, <<"transferred 1 SOL", "TRANSFER">>}

\* const desc = tx?.description || tx?.type || ""
DescOf(tx) == IF tx.description # "" THEN tx.description ELSE tx.type

\* Faulty variant: every event passes the filter.
SwapLikeAll(desc) == TRUE

\* /swap|amm|raydium|orca/i.test(desc), on the strings above
SwapLike(desc) == desc \in {"swapped 1 SOL on Orca", "SWAP"}

\* tx.tokenTransfers: a list whose entries may lack a mint ("") or repeat one
TransferLists == {<<>>, <<"m1">>, <<"", "m2">>, <<"m1", "m2", "m1">>}

Txs ==
    {[description |-> k[1], type |-> k[2], transfers |-> <<"m1">>, timestamp |-> 0] :
        k \in OtherKinds}
    \cup {[description |-> k[1], type |-> k[2], transfers |-> tl, timestamp |-> ts] :
            k \in SwapKinds, tl \in TransferLists, ts \in 0..MaxTime}

TxLists == UNION {[1..n -> Txs] : n \in 0..MaxTx}

\* What res.json() resolves with: null, an object that is no list, or a list.
FeedAnswers ==
    {[kind |-> "null", txs |-> <<>>], [kind |-> "object", txs |-> <<>>]}
    \cup {[kind |-> "list", txs |-> l] : l \in TxLists}

\* A feed that may give any answer at any request.
AnyFeed == [a \in Addrs |-> FeedAnswers]

\* A feed with no new activity: every request for an address gets the same
\* list of at most MaxFeed distinct transactions, newest first or not. The
\* transactions: a swap of m1 told by its description, an earlier swap of m1
\* and m2 told by its type, and a transfer that is no swap.
FeedTxs ==
    {[description |-> "swapped 1 SOL on Orca", type |-> "TRANSFER",
      transfers |-> <<"m1">>, timestamp |-> MaxTime],
     [description |-> "", type |-> "SWAP",
      transfers |-> <<"m1", "m2", "m1">>, timestamp |-> 0],
     [description |-> "transferred 1 SOL", type |-> "TRANSFER",
      transfers |-> <<"m1">>, timestamp |-> 0]}

StableAnswers ==
    {[kind |-> "list", txs |-> l] :
        l \in {x \in UNION {[1..n -> FeedTxs] : n \in 0..MaxFeed} :
                  \A i \in 1..Len(x), j \in 1..Len(x) : i # j => x[i] # x[j]}}

NoTrade == [seen |-> FALSE, firstSeen |-> 0, swapCount |-> 0]

NoWallet == [present |-> FALSE, label |-> "", trades |-> [m \in Mints |-> NoTrade]]

\* { label: null, trades: new Map() }
NewWallet == [present |-> TRUE, label |-> "", trades |-> [m \in Mints |-> NoTrade]]

\* if (!wallets.has(address)) wallets.set(address, {...}); return wallets.get(address)
getWalletInfo(ws, a) == IF ws[a].present THEN ws ELSE [ws EXCEPT ![a] = NewWallet]

\* new Date(tx.timestamp * 1000), in milliseconds
FromSeconds(ts) == ts * 1000

\* (tx?.tokenTransfers || []).forEach(tr => { if (tr?.mint) mints.add(tr.mint) })
MintsOf(tx) == {tx.transfers[k] : k \in 1..Len(tx.transfers)} \ {""}

\* Faulty variant: the record is set anew at every swap.
recordSwapOverwrite(t, tx) ==
    [seen |-> TRUE, firstSeen |-> tx.timestamp * 1000, swapCount |-> 1]

\* Faulty variant: a repeated swap also moves firstSeen.
recordSwapRefresh(t, tx) ==
    IF ~t.seen
    THEN [seen |-> TRUE, firstSeen |-> tx.timestamp * 1000, swapCount |-> 1]
    ELSE [t EXCEPT !.swapCount = t.swapCount + 1, !.firstSeen = tx.timestamp * 1000]

\* const t = info.trades.get(mint); if (!t) info.trades.set(mint, {mint,
\* firstSeen: new Date(tx.timestamp * 1000), swapCount: 1}); else t.swapCount++
recordSwap(t, tx) ==
    IF ~t.seen
    THEN [seen |-> TRUE, firstSeen |-> FromSeconds(tx.timestamp), swapCount |-> 1]
    ELSE [t EXCEPT !.swapCount = t.swapCount + 1]

\* One iteration of `for (const tx of data || [])`.
applyTx(trades, tx) ==
    IF ~SwapLike(DescOf(tx)) \/ MintsOf(tx) = {}
    THEN trades
    ELSE [m \in Mints |-> IF m \in MintsOf(tx) THEN recordSwap(trades[m], tx) ELSE trades[m]]

RECURSIVE applyTxs(_, _)
applyTxs(trades, txs) ==
    IF txs = <<>> THEN trades ELSE applyTxs(applyTx(trades, Head(txs)), Tail(txs))

\* Faulty variant: the loop yields after its first iteration, so that only the
\* first transaction of the answer is on record when other handlers run.
ingestFirst(ws, a, ans) ==
    LET ws1 == getWalletInfo(ws, a)
    IN IF ans.kind = "list" /\ ans.txs # <<>>
       THEN [ws1 EXCEPT ![a].trades = applyTx(ws1[a].trades, Head(ans.txs))]
       ELSE ws1

\* fetchWalletSwaps after `await res.json()`: getWalletInfo(address), then the
\* loop; an answer that is no list makes `for ... of` throw after getWalletInfo
\* has run (the rejection is caught and logged by pollWallets).
ingest(ws, a, ans) ==
    LET ws1 == getWalletInfo(ws, a)
    IN IF ans.kind = "list"
       THEN [ws1 EXCEPT ![a].trades = applyTxs(ws1[a].trades, ans.txs)]
       ELSE ws1

\* `for (const tx of data || [])` throws a TypeError on a value that is neither
\* null nor iterable.
IngestThrows(ans) == ans.kind = "object"

\* ------------------------------------------------- the win-rate evaluator
\* WIN_MINUTES (an injected value; 5 by default)
WIN_MINUTES == 5

\* const WIN_MS = WIN_MINUTES * 60_000
WIN_MS == WIN_MINUTES * 60000

\* Faulty variant: age or repetition alone makes a win.
isWinEither(t, nowMs) == (nowMs - t.firstSeen >= WIN_MS) \/ (t.swapCount >= 2)

\* aliveForMs = now - t.firstSeen.getTime(); survived = aliveForMs >= WIN_MS;
\* multiSwaps = t.swapCount >= 2; isWin = survived && multiSwaps
isWin(t, nowMs) ==
    LET aliveForMs == nowMs - t.firstSeen
        survived == aliveForMs >= WIN_MS
        multiSwaps == t.swapCount >= 2
    IN survived /\ multiSwaps

\* Faulty variant: the ratio upside down.
WinRateInverted(wins, count) ==
    IF wins = 0 THEN 0 ELSE (200 * count + wins) \div (2 * wins)

\* Math.round((wins / count) * 100), or 0 when count is 0. The quotient and the
\* product are doubles: of the half percents k/2 (k odd, wins / count = k / 200)
\* the product misses those of `lost` from below, and Math.round then rounds
\* down (23 / 40 gives 57); every other half-way case rounds up.
WinRate(wins, count) ==
    IF count = 0 THEN 0
    ELSE LET nearest == (200 * wins + count) \div (2 * count)
             lost == {29, 57, 113, 115}
         IN IF (200 * wins) % count = 0 /\ ((200 * wins) \div count) \in lost
            THEN nearest - 1
            ELSE nearest

\* The entry of one wallet in the answer of GET /wallets/stats: tokens, wins,
\* winRate and, per mint on record, the win flag.
WalletStats(w, nowMs) ==
    LET listed == {m \in Mints : w.trades[m].seen}
        won == {m \in listed : isWin(w.trades[m], nowMs)}
    IN [listed |-> w.present,
        tokens |-> Cardinality(listed),
        wins |-> Cardinality(won),
        winRate |-> WinRate(Cardinality(won), Cardinality(listed)),
        win |-> [m \in Mints |-> m \in won]]

\* GET /wallets/stats at Date.now() = nowMs: wallets.forEach(...)
walletsStats(ws, nowMs) ==
    [a \in Addrs |-> WalletStats(IF ws[a].present THEN ws[a] ELSE NoWallet, nowMs)]

\* totalWins += wins; total += count, over the wallets visited
RECURSIVE SumOf(_, _)
SumOf(f, S) ==
    IF S = {} THEN 0 ELSE LET a == CHOOSE x \in S : TRUE IN f[a] + SumOf(f, S \ {a})

\* Faulty variant: the global rate as the rounded mean of the wallets' rates.
globalStatsAveraged(ws, nowMs) ==
    LET per == walletsStats(ws, nowMs)
        listed == {a \in Addrs : per[a].listed}
        total == SumOf([a \in Addrs |-> per[a].tokens], listed)
        totalWins == SumOf([a \in Addrs |-> per[a].wins], listed)
        n == Cardinality(listed)
        rates == SumOf([a \in Addrs |-> per[a].winRate], listed)
    IN [tokens |-> total, wins |-> totalWins,
        winRate |-> IF n = 0 THEN 0 ELSE (2 * rates + n) \div (2 * n)]

\* global: { tokens: total, wins: totalWins, winRate: globalWR }
globalStats(ws, nowMs) ==
    LET per == walletsStats(ws, nowMs)
        listed == {a \in Addrs : per[a].listed}
        total == SumOf([a \in Addrs |-> per[a].tokens], listed)
        totalWins == SumOf([a \in Addrs |-> per[a].wins], listed)
    IN [tokens |-> total, wins |-> totalWins, winRate |-> WinRate(totalWins, total)]

\* The trade records a wallet can hold.
TradeRecords ==
    {NoTrade}
    \cup {[seen |-> TRUE, firstSeen |-> FromSeconds(ts), swapCount |-> n] :
            ts \in 0..MaxTime, n \in 1..MaxSwaps}

\* The ledgers ingestion can build.
Ledgers ==
    [Addrs -> {NoWallet}
              \cup {[present |-> TRUE, label |-> l, trades |-> tr] :
                      l \in {"", "alpha"}, tr \in [Mints -> TradeRecords]}]

\* Instants at which the statistics are asked for, around the threshold.
EvalTimes ==
    {0, WIN_MS - 1, WIN_MS, WIN_MS + FromSeconds(MaxTime) - 1, WIN_MS + FromSeconds(MaxTime)}

\* SpecLedger: the ledger operation applied last, with its input: op "none",
\* "ingest" (address, ans, and whether it threw) or "stats" (at, report,
\* global); before is the ledger it was applied to.
NoOp ==
    [op |-> "none", address |-> "", ans |-> [kind |-> "null", txs |-> <<>>],
     threw |-> FALSE, at |-> 0, report |-> walletsStats([a \in Addrs |-> NoWallet], 0),
     global |-> globalStats([a \in Addrs |-> NoWallet], 0),
     before |-> [a \in Addrs |-> NoWallet]]

InitAux == lastOp = NoOp

WalletCycles == 1..MaxWalletCycles

InitWal(key) ==
    /\ heliusKey = key
    /\ feed = AnyFeed
    /\ wallets = [a \in Addrs |-> NoWallet]
    /\ wfetch = {}
    /\ wcyc = [k \in WalletCycles |-> "none"]
    /\ wInvoked = 0

\* ------------------------------------------------ the snapshot cache
Fields == {"tokenCount", "lastPoll", "activeSource", "backupUsed"}

\* lastPoll: null, or new Date().toISOString() (millisecond precision, so the
\* instant is kept and ISO strings order as their instants do)
NullTime == [set |-> FALSE, t |-> 0]

ToISOString(t) == [set |-> TRUE, t |-> t]

\* v5.3.4 labels, v5.3.2, v5.3 and v5.1 URLs
DEXSCREENER_SOLANA == "https://api.dexscreener.com/latest/dex/tokens/solana"

BIRDEYE_SOLANA ==
    "https://public-api.birdeye.so/defi/market_overview?chain=solana&sort_by=volume_24h&sort_type=desc&offset=0&limit=50"

SOURCES_raydium ==
    <<"https://api.raydium.io/pairs",
      "https://api.dexscreener.io/latest/dex/pairs/solana",
      "https://public-api.birdeye.so/public/market/overview?sort_by=volume_24h&sort_type=desc&offset=0&limit=100">>

\* SOURCES.raydium of v5.3
SOURCES53_raydium ==
    <<"https://api.raydium.io/v2/main/pairs",
      "https://api.dexscreener.com/latest/dex/search?q=solana",
      "https://public-api.birdeye.so/defi/tokenlist?sort_by=volume_24h&limit=200">>

\* The failover chain of each version, in the order the code tries it.
Chain(v) ==
    CASE v = "v534" -> <<"DexPairs", "DexSearch", "BirdEye">>
      [] v = "v532" -> <<DEXSCREENER_SOLANA, BIRDEYE_SOLANA>>
      [] v = "v53" -> SOURCES53_raydium
      [] OTHER -> SOURCES_raydium

\* let CACHE = {tokenCount: 0, lastPoll: null, activeSource: ..., backupUsed: false}
InitialCache(v) ==
    [tokenCount |-> JSNumber(0), lastPoll |-> NullTime,
     activeSource |-> CASE v = "v534" -> "DexPairs"
                        [] v = "v532" -> "DexScreener"
                        [] OTHER -> "Raydium Primary",
     backupUsed |-> FALSE]

\* ------------------------------------------------------ the pair cache
\* extractAddressesLimited(..., {limit: 40}) in pollPairs
PAIR_LIMIT == 40

\* extractAddressesLimited(..., {limit: 30}) in pollSources of src/server.js
SOURCE_LIMIT == 30

Min(a, b) == IF a <= b THEN a ELSE b

\* extractAddressesLimited(text, {limit}) on what the call c returned: [] for
\* `__ERROR__...`, otherwise the first `limit` distinct addresses of the text
\* (none for the empty text, which the code answers with [] at once).
extractAddressesLimited(c, limit) ==
    IF ~c.result.ok
    THEN <<>>
    ELSE SubSeq(c.text, 1, Min(limit, Len(c.text)))

\* What pollPairs reads of the string a call has returned: whether it is an
\* error (startsWith("__ERROR__")) and, if not, the addresses it names. Its
\* length is never read and is left out (n = 0).
ReturnValue(c) ==
    [NoCall EXCEPT !.helper = c.helper,
                   !.result = [c.result EXCEPT !.data.n = 0],
                   !.text = IF c.result.ok THEN c.text ELSE <<>>]

NoPair == [present |-> FALSE, source |-> "", firstSeen |-> 0, lastSeen |-> 0]

\* Faulty variant: a re-sighting overwrites the source.
upsertPairRetag(tokens, addr, source, t) ==
    IF tokens[addr].present
    THEN [tokens EXCEPT ![addr].lastSeen = t, ![addr].source = source]
    ELSE [tokens EXCEPT ![addr] =
             [present |-> TRUE, source |-> source, firstSeen |-> t, lastSeen |-> t]]

\* Faulty variant: every sighting inserts afresh.
upsertPairFresh(tokens, addr, source, t) ==
    [tokens EXCEPT ![addr] =
        [present |-> TRUE, source |-> source, firstSeen |-> t, lastSeen |-> t]]

\* Faulty variant: a re-sighting moves firstSeen, not lastSeen.
upsertPairFirst(tokens, addr, source, t) ==
    IF tokens[addr].present
    THEN [tokens EXCEPT ![addr].firstSeen = t]
    ELSE [tokens EXCEPT ![addr] =
             [present |-> TRUE, source |-> source, firstSeen |-> t, lastSeen |-> t]]

\* upsertPair(addr, source), with t the value `new Date()` takes in it:
\* const cur = tokens.get(addr); if (cur) cur.lastSeen = now;
\* else tokens.set(addr, {address: addr, source, firstSeen: now, lastSeen: now})
upsertPair(tokens, addr, source, t) ==
    IF tokens[addr].present
    THEN [tokens EXCEPT ![addr].lastSeen = t]
    ELSE [tokens EXCEPT ![addr] =
             [present |-> TRUE, source |-> source, firstSeen |-> t, lastSeen |-> t]]

\* Faulty variant: Orca's addresses are upserted before Raydium's.
UpsertCallsOrcaFirst(rayAddrs, orcAddrs) ==
    [i \in 1..(Len(rayAddrs) + Len(orcAddrs)) |->
        IF i <= Len(orcAddrs)
        THEN [addr |-> orcAddrs[i], source |-> "orca"]
        ELSE [addr |-> rayAddrs[i - Len(orcAddrs)], source |-> "raydium"]]

\* rayAddrs.forEach(a => upsertPair(a, "raydium")) and the same for orca: the
\* calls of one batch in the order they are made.
UpsertCalls(rayAddrs, orcAddrs) ==
    [i \in 1..(Len(rayAddrs) + Len(orcAddrs)) |->
        IF i <= Len(rayAddrs)
        THEN [addr |-> rayAddrs[i], source |-> "raydium"]
        ELSE [addr |-> orcAddrs[i - Len(rayAddrs)], source |-> "orca"]]

\* The calls of a batch applied in order; ts[i] is the clock read of call i.
RECURSIVE upsertAll(_, _, _)
upsertAll(tokens, calls, ts) ==
    IF calls = <<>>
    THEN tokens
    ELSE upsertAll(upsertPair(tokens, Head(calls).addr, Head(calls).source, Head(ts)),
                   Tail(calls), Tail(ts))

\* The values n successive reads of the clock can take from instant t0 on.
ClockReads(t0, n) ==
    {ts \in [1..n -> t0..MaxTime] : \A i \in 1..(n - 1) : ts[i] <= ts[i + 1]}

\* new Date()
NewDate(t) == [set |-> TRUE, t |-> t]

\* A pollPairs invocation: pc "none", "fetching" (awaiting Promise.all of the
\* two fetchLimited calls) or "done"; batch is history: the upsert calls the
\* invocation made, each with its clock read.
NoPairCycle == [pc |-> "none", ray |-> NoCall, orc |-> NoCall, batch |-> <<>>]

PairCycles == 1..MaxPairCycles

InitPairs ==
    /\ pairCache = [tokens |-> [a \in PairAddrs |-> NoPair], lastPoll |-> NullTime]
    /\ pcyc = [k \in PairCycles |-> NoPairCycle]
    /\ pInvoked = 0

\* ----------------------------------------------------- JS expressions
\* Array.isArray(x.data?.pairs) ? x.data.pairs.length : 0
PairsLength(d) == IF d.shape = "pairs" THEN d.n ELSE 0

\* x.data?.data?.length || 0
DataLength(d) ==
    CASE d.shape = "data" -> JSNumber(d.n)
      [] d.shape = "dataLength" -> OrZero(JSNumber(d.n))
      [] d.shape = "dataLengthText" -> OrZero(JSString(Digits(d.n)))
      [] OTHER -> JSNumber(0)

\* Array.isArray(orca.data) ? orca.data.length : 0
ArrayLength(d) == IF d.shape = "array" THEN d.n ELSE 0

\* x.data?.length || 0
Length(d) ==
    CASE d.shape = "array" -> JSNumber(d.n)
      [] d.shape = "length" -> OrZero(JSNumber(d.n))
      [] d.shape = "lengthText" -> OrZero(JSString(Digits(d.n)))
      [] OTHER -> JSNumber(0)

\* `result.data` as a condition: null and undefined are falsy; objects and
\* arrays, also empty ones, are truthy
Truthy(d) == d.shape \notin {"null", "undefined"}

\* dex.data.pairs with no optional chaining: a TypeError when data is null
ThrowsOnPairs(d) == d.shape = "null"

\* activeSource.includes("birdeye"): of the values activeSource takes ("" and
\* the two URLs of v5.3.2) only BIRDEYE_SOLANA holds that substring
IncludesBirdeye(s) == s = BIRDEYE_SOLANA

\* ------------------------------------------------ one poll invocation
\* pc: "none" (not invoked), "skipped" (returned at the isPolling guard),
\* "chain" (awaiting the fetch of chain source idx), "orca" (awaiting the
\* auxiliary fetch), "done", "threw" (the async function rejected).
\* activeSource / totalTokens are pollOnce's locals; for pollDEX activeSource
\* is sourceUsed and result is raydiumResult.data. log is history: the chain
\* fetches this invocation has completed.
NoCycle ==
    [pc |-> "none", idx |-> 0, call |-> NoCall, activeSource |-> "",
     totalTokens |-> JSNumber(0), result |-> NoData, log |-> <<>>]

\* History only: the number of items a source answered with, in the shape its
\* endpoint uses (pairs for the DexScreener sources, data for BirdEye, a plain
\* array for Raydium and Orca); 0 for a failed fetch.
Items(src, out) ==
    IF ~out.ok THEN 0
    ELSE CASE src \in {"DexPairs", "DexSearch", DEXSCREENER_SOLANA} ->
                 IF out.data.shape = "pairs" THEN out.data.n ELSE 0
           [] src \in {"BirdEye", BIRDEYE_SOLANA} ->
                 IF out.data.shape = "data" THEN out.data.n ELSE 0
           [] OTHER -> IF out.data.shape = "array" THEN out.data.n ELSE 0

Entry(src, out) == [src |-> src, ok |-> out.ok, items |-> Items(src, out)]

Logged(c, src, out) == [c EXCEPT !.log = Append(c.log, Entry(src, out))]

\* Faulty variant: the guard is missing (as in pollDEX).
PollGuardOff(flag) == FALSE

\* if (isPolling) return;
PollGuard(flag) == flag

\* The fields one commit writes before any other handler can run.
\* CACHE = {...}: the object is replaced.
CommitWritesOnce == Fields

\* Faulty variant: the orca fetch is awaited between the third and the fourth
\* assignment, so tokenCount is not written in the step that writes the rest.
CommitWritesSplit == {"lastPoll", "activeSource", "backupUsed"}

\* CACHE.lastPoll = ...; CACHE.activeSource = ...; CACHE.backupUsed = ...;
\* CACHE.tokenCount = ...: four assignments with no await between them.
CommitWritesDEX == Fields

Written(old, new, fs) == [f \in Fields |-> IF f \in fs THEN new[f] ELSE old[f]]

\* ---------------------------------------------------- pollOnce v5.3.4
\* if (dexPairs.ok) { count = ...; if (count > 0) { totalTokens = count;
\* activeSource = "DexPairs"; } }   (the same for DexSearch)
AfterDexPairs(c, out, label) ==
    IF out.ok /\ PairsLength(out.data) > 0
    THEN [c EXCEPT !.totalTokens = JSNumber(PairsLength(out.data)), !.activeSource = label]
    ELSE c

\* if (bird.ok) { totalTokens = bird.data?.data?.length || 0;
\* activeSource = "BirdEye"; }
AfterBirdEye(c, out, label) ==
    IF out.ok
    THEN [c EXCEPT !.totalTokens = DataLength(out.data), !.activeSource = label]
    ELSE c

\* Faulty variant: the `if (!activeSource)` guards are missing, every source
\* of the chain is fetched.
pollOnceChainAll(c, out) ==
    LET c1 == IF c.idx = 3 THEN AfterBirdEye(c, out, "BirdEye")
              ELSE AfterDexPairs(c, out, Chain("v534")[c.idx])
        c2 == Logged(c1, Chain("v534")[c.idx], out)
    IN IF c.idx < 3
       THEN [c2 EXCEPT !.idx = c.idx + 1, !.call = safeFetch]
       ELSE [c2 EXCEPT !.pc = "orca", !.idx = 0, !.call = safeFetch]

\* pollOnce from the return of a chain fetch to its next await.
pollOnceChain(c, out) ==
    LET c1 == IF c.idx = 3 THEN AfterBirdEye(c, out, "BirdEye")
              ELSE AfterDexPairs(c, out, Chain("v534")[c.idx])
        c2 == Logged(c1, Chain("v534")[c.idx], out)
    IN IF c2.activeSource = "" /\ c.idx < 3
       THEN [c2 EXCEPT !.idx = c.idx + 1, !.call = safeFetch]
       ELSE [c2 EXCEPT !.pc = "orca", !.idx = 0, !.call = safeFetch]

\* Faulty variant: backupUsed forgets DexSearch.
pollOnceSnapshotBirdOnly(c, orca, t) ==
    [tokenCount |-> Plus(c.totalTokens, JSNumber(ArrayLength(orca.data))),
     lastPoll |-> ToISOString(t),
     activeSource |-> IF c.activeSource = "" THEN "All failed" ELSE c.activeSource,
     backupUsed |-> (c.activeSource = "BirdEye")]

\* CACHE = {tokenCount: totalTokens + orcaCount, lastPoll: ..., activeSource:
\* activeSource || "All failed", backupUsed: activeSource === "BirdEye" ||
\* activeSource === "DexSearch"}
pollOnceSnapshot(c, orca, t) ==
    [tokenCount |-> Plus(c.totalTokens, JSNumber(ArrayLength(orca.data))),
     lastPoll |-> ToISOString(t),
     activeSource |-> IF c.activeSource = "" THEN "All failed" ELSE c.activeSource,
     backupUsed |-> (c.activeSource = "BirdEye" \/ c.activeSource = "DexSearch")]

\* ---------------------------------------------------- pollOnce v5.3.2
\* if (dex.ok) { totalTokens = Array.isArray(dex.data.pairs) ? ... : 0;
\* activeSource = DEXSCREENER_SOLANA; } else { bird = await safeFetch(...) }
pollOnce532Chain(c, out) ==
    LET src == Chain("v532")[c.idx]
        c2 == Logged(c, src, out)
    IN IF c.idx = 1
       THEN IF out.ok
            THEN IF ThrowsOnPairs(out.data)
                 THEN [c2 EXCEPT !.pc = "threw", !.idx = 0, !.call = NoCall]
                 ELSE [c2 EXCEPT !.totalTokens = JSNumber(PairsLength(out.data)),
                                 !.activeSource = src,
                                 !.pc = "orca", !.idx = 0, !.call = safeFetch]
            ELSE [c2 EXCEPT !.idx = 2, !.call = safeFetch]
       ELSE IF out.ok
            THEN [c2 EXCEPT !.totalTokens = DataLength(out.data),
                            !.activeSource = src,
                            !.pc = "orca", !.idx = 0, !.call = safeFetch]
            ELSE [c2 EXCEPT !.pc = "orca", !.idx = 0, !.call = safeFetch]

\* CACHE = {tokenCount: totalTokens + (orca.data?.length || 0), ...,
\* backupUsed: activeSource.includes("birdeye")}
pollOnce532Snapshot(c, orca, t) ==
    [tokenCount |-> Plus(c.totalTokens, Length(orca.data)),
     lastPoll |-> ToISOString(t),
     activeSource |-> IF c.activeSource = "" THEN "All failed" ELSE c.activeSource,
     backupUsed |-> IncludesBirdeye(c.activeSource)]

\* --------------------------------------------------------- pollDEX v5.1
\* for (let url of SOURCES.raydium) { result = await fetchJSON(url);
\* if (result.ok && result.data) { raydiumResult = result; sourceUsed = url;
\* break; } }
pollDEXChain(c, out) ==
    LET src == SOURCES_raydium[c.idx]
        c2 == Logged(c, src, out)
    IN IF out.ok /\ Truthy(out.data)
       THEN [c2 EXCEPT !.result = out.data, !.activeSource = src,
                       !.pc = "orca", !.idx = 0, !.call = fetchJSON]
       ELSE IF c.idx < Len(SOURCES_raydium)
            THEN [c2 EXCEPT !.idx = c.idx + 1, !.call = fetchJSON]
            ELSE [c2 EXCEPT !.pc = "orca", !.idx = 0, !.call = fetchJSON]

\* CACHE.lastPoll = ...; CACHE.activeSource = sourceUsed || "All failed";
\* CACHE.backupUsed = sourceUsed !== SOURCES.raydium[0]; CACHE.tokenCount =
\* (raydiumResult.data?.length || 0) + (orcaResult.data?.length || 0)
pollDEXSnapshot(c, orca, t) ==
    [tokenCount |-> Plus(Length(c.result), Length(orca.data)),
     lastPoll |-> ToISOString(t),
     activeSource |-> IF c.activeSource = "" THEN "All failed" ELSE c.activeSource,
     backupUsed |-> (c.activeSource # SOURCES_raydium[1])]

\* --------------------------------------------------------- pollDEX v5.3
\* for (let url of SOURCES.raydium) { result = await fetchJSON(url, label,
\* 4000); if (result.ok && result.data) { raydiumResult = result;
\* sourceUsed = url; break; } }
pollDEX53Chain(c, out) ==
    LET src == SOURCES53_raydium[c.idx]
        c2 == Logged(c, src, out)
    IN IF out.ok /\ Truthy(out.data)
       THEN [c2 EXCEPT !.result = out.data, !.activeSource = src,
                       !.pc = "orca", !.idx = 0, !.call = fetchJSON53]
       ELSE IF c.idx < Len(SOURCES53_raydium)
            THEN [c2 EXCEPT !.idx = c.idx + 1, !.call = fetchJSON53]
            ELSE [c2 EXCEPT !.pc = "orca", !.idx = 0, !.call = fetchJSON53]

\* CACHE.lastPoll = ...; CACHE.activeSource = sourceUsed || "All Raydium
\* sources failed"; CACHE.backupUsed = sourceUsed !== SOURCES.raydium[0];
\* CACHE.tokenCount = (raydiumResult.data?.length || 0) +
\* (orcaResult.data?.length || 0)
pollDEX53Snapshot(c, orca, t) ==
    [tokenCount |-> Plus(Length(c.result), Length(orca.data)),
     lastPoll |-> ToISOString(t),
     activeSource |-> IF c.activeSource = "" THEN "All Raydium sources failed"
                      ELSE c.activeSource,
     backupUsed |-> (c.activeSource # SOURCES53_raydium[1])]

\* ------------------------------------------- the liquidity poller's steps
InFlight(i) == cyc[i].pc \in {"chain", "orca"}

Finished(c) == [NoCycle EXCEPT !.pc = "done"]

ChainStep(c, out) ==
    CASE variant = "v534" -> pollOnceChain(c, out)
      [] variant = "v532" -> pollOnce532Chain(c, out)
      [] variant = "v53" -> pollDEX53Chain(c, out)
      [] OTHER -> pollDEXChain(c, out)

Snapshot(c, orca, t) ==
    CASE variant = "v534" -> pollOnceSnapshot(c, orca, t)
      [] variant = "v532" -> pollOnce532Snapshot(c, orca, t)
      [] variant = "v53" -> pollDEX53Snapshot(c, orca, t)
      [] OTHER -> pollDEXSnapshot(c, orca, t)

CommitWrites == IF variant \in {"v51", "v53"} THEN CommitWritesDEX ELSE CommitWritesOnce

\* Invocation i's awaited helper call has moved to c2. While it has not
\* returned nothing else changes; when it has, the poll function resumes: after
\* a chain fetch it runs to its next await, after the Orca fetch it reads the
\* clock (new Date(), which has gone on since the last event) and writes the
\* snapshot (and pollOnce releases isPolling).
Resume(i, c2) ==
    LET c == cyc[i]
        out == c2.result
    IN IF c2.stage # "returned"
       THEN /\ cyc' = [cyc EXCEPT ![i].call = c2]
            /\ UNCHANGED <<CACHE, isPolling, writer, cacheLog, now>>
       ELSE IF c.pc = "chain"
       THEN /\ cyc' = [cyc EXCEPT ![i] = ChainStep(c, out)]
            /\ UNCHANGED <<CACHE, isPolling, writer, cacheLog, now>>
       ELSE /\ \E t \in now..(now + MaxLag) :
                  /\ now' = t
                  /\ CACHE' = Written(CACHE, Snapshot(c, out, t), CommitWrites)
            /\ writer' = Written(writer, [f \in Fields |-> i], CommitWrites)
            /\ cacheLog' = [chain |-> c.log, orca |-> Items("Orca", out)]
            /\ isPolling' = FALSE
            /\ cyc' = [cyc EXCEPT ![i] = Finished(c)]

\* pollOnce(), called at start-up and by setInterval every 5 minutes.
pollOnce ==
    /\ variant \in {"v534", "v532"}
    /\ nInvoked < MaxCycles
    /\ nInvoked' = nInvoked + 1
    /\ now' = now + 1
    /\ IF PollGuard(isPolling)
       THEN /\ cyc' = [cyc EXCEPT ![nInvoked + 1].pc = "skipped"]
            /\ UNCHANGED isPolling
       ELSE /\ cyc' = [cyc EXCEPT ![nInvoked + 1] =
                          [NoCycle EXCEPT !.pc = "chain", !.idx = 1, !.call = safeFetch]]
            /\ isPolling' = TRUE
    /\ UNCHANGED <<CACHE, writer, cacheLog, lastRead, fetchVars, walVars, auxVars, variant>>

\* pollDEX() of v5.1, called at start-up and by setInterval every 5 minutes.
pollDEX ==
    /\ variant = "v51"
    /\ nInvoked < MaxCycles
    /\ nInvoked' = nInvoked + 1
    /\ now' = now + 1
    /\ cyc' = [cyc EXCEPT ![nInvoked + 1] =
                  [NoCycle EXCEPT !.pc = "chain", !.idx = 1, !.call = fetchJSON]]
    /\ UNCHANGED <<CACHE, isPolling, writer, cacheLog, lastRead, fetchVars, walVars, auxVars, variant>>

\* pollDEX() of v5.3, called at start-up and by setInterval every 5 minutes.
pollDEX53 ==
    /\ variant = "v53"
    /\ nInvoked < MaxCycles
    /\ nInvoked' = nInvoked + 1
    /\ now' = now + 1
    /\ cyc' = [cyc EXCEPT ![nInvoked + 1] =
                  [NoCycle EXCEPT !.pc = "chain", !.idx = 1, !.call = fetchJSON53]]
    /\ UNCHANGED <<CACHE, isPolling, writer, cacheLog, lastRead, fetchVars, walVars, auxVars, variant>>

LiqFrame == UNCHANGED <<nInvoked, lastRead, fetchVars, walVars, auxVars, variant>>

\* fetch() rejects: no connection, reset, and for v5.1 node-fetch's own timeout
FetchReject(i) ==
    /\ InFlight(i) /\ cyc[i].call.stage = "headers"
    /\ Resume(i, OnReject(cyc[i].call))
    /\ LiqFrame

\* the response's status line and headers arrive
FetchHeaders(i) ==
    /\ InFlight(i) /\ cyc[i].call.stage = "headers"
    /\ \E st \in Statuses : Resume(i, OnHeaders(cyc[i].call, st))
    /\ LiqFrame

\* the body arrives whole and parses
FetchJSON(i) ==
    /\ InFlight(i) /\ cyc[i].call.stage = "body"
    /\ \E d \in BodiesOf(variant) : Resume(i, OnJSON(cyc[i].call, d))
    /\ LiqFrame

\* the body does not parse, or its stream fails
FetchBadBody(i) ==
    /\ InFlight(i) /\ cyc[i].call.stage = "body"
    /\ Resume(i, OnBadBody(cyc[i].call))
    /\ LiqFrame

\* the helper's abort timer fires
FetchTimeout(i) ==
    /\ InFlight(i) /\ cyc[i].call.timer
    /\ Resume(i, OnTimeout(cyc[i].call))
    /\ LiqFrame

\* GET /, /liquidity-check, /status: the response is built from CACHE in one
\* synchronous handler.
ReadSnapshot ==
    /\ variant # "off"
    /\ lastRead' = writer
    /\ UNCHANGED <<CACHE, isPolling, cyc, nInvoked, writer, cacheLog, now, fetchVars, walVars, auxVars, variant>>

Cycles == 1..MaxCycles

InitLiq(v) ==
    /\ variant = v
    /\ CACHE = InitialCache(v)
    /\ isPolling = FALSE
    /\ cyc = [i \in Cycles |-> NoCycle]
    /\ nInvoked = 0
    /\ writer = [f \in Fields |-> 0]
    /\ cacheLog = [chain |-> <<>>, orca |-> 0]
    /\ lastRead = [f \in Fields |-> 0]

Init ==
    /\ \E v \in {"v534", "v532", "v53", "v51"} : InitLiq(v)
    /\ now = 0
    /\ InitFetch
    /\ InitWal(FALSE)
    /\ InitPairs
    /\ InitAux

Next ==
    \/ pollOnce
    \/ pollDEX
    \/ pollDEX53
    \/ \E i \in Cycles : FetchReject(i)
    \/ \E i \in Cycles : FetchHeaders(i)
    \/ \E i \in Cycles : FetchJSON(i)
    \/ \E i \in Cycles : FetchBadBody(i)
    \/ \E i \in Cycles : FetchTimeout(i)
    \/ ReadSnapshot

Spec == Init /\ [][Next]_vars

\* The event loop runs a timer that is armed; the network owes nothing.
FairSpec == Spec /\ \A i \in Cycles : WF_vars(FetchTimeout(i))

\* ------------------------------------------------- SpecFetch: one helper
\* A caller invokes safeFetch.
CallSafeFetch ==
    /\ call.stage = "returned" /\ ncalls < MaxCalls
    /\ call' = safeFetch /\ ncalls' = ncalls + 1
    /\ UNCHANGED <<now, liqVars, walVars, auxVars>>

\* A caller invokes fetchLimited.
CallFetchLimited ==
    /\ call.stage = "returned" /\ ncalls < MaxCalls
    /\ call' = fetchLimited /\ ncalls' = ncalls + 1
    /\ UNCHANGED <<now, liqVars, walVars, auxVars>>

NetReject ==
    /\ call.stage = "headers"
    /\ call' = OnReject(call)
    /\ UNCHANGED <<ncalls, now, liqVars, walVars, auxVars>>

NetHeaders ==
    /\ call.stage = "headers"
    /\ \E st \in Statuses : call' = OnHeaders(call, st)
    /\ UNCHANGED <<ncalls, now, liqVars, walVars, auxVars>>

NetJSON ==
    /\ call.stage = "body" /\ call.helper = "safeFetch"
    /\ \E d \in Bodies : call' = OnJSON(call, d)
    /\ UNCHANGED <<ncalls, now, liqVars, walVars, auxVars>>

NetBadBody ==
    /\ call.stage = "body" /\ call.helper = "safeFetch"
    /\ call' = OnBadBody(call)
    /\ UNCHANGED <<ncalls, now, liqVars, walVars, auxVars>>

\* A chunk of the body is delivered to the "data" listener; a stream that
\* has been destroyed still delivers the chunks it had buffered.
NetChunk ==
    /\ call.stage = "body" /\ call.helper = "fetchLimited"
    /\ \E len \in 1..MaxChunk, as \in ChunkTexts :
          /\ call.total + len <= MaxBody
          /\ call' = OnChunk(call, len, as)
    /\ UNCHANGED <<ncalls, now, liqVars, walVars, auxVars>>

\* The stream emits "end"; a destroyed stream does so when the end of the
\* body was already buffered, and otherwise emits nothing more.
NetEnd ==
    /\ call.stage = "body" /\ call.helper = "fetchLimited"
    /\ call' = OnEnd(call)
    /\ UNCHANGED <<ncalls, now, liqVars, walVars, auxVars>>

NetStreamError ==
    /\ call.stage = "body" /\ call.helper = "fetchLimited" /\ ~call.destroyed
    /\ call' = OnStreamError(call)
    /\ UNCHANGED <<ncalls, now, liqVars, walVars, auxVars>>

Timeout ==
    /\ call.stage # "returned" /\ call.timer
    /\ call' = OnTimeout(call)
    /\ UNCHANGED <<ncalls, now, liqVars, walVars, auxVars>>

Tick ==
    /\ now < MaxTime
    /\ now' = now + 1
    /\ UNCHANGED <<call, ncalls, liqVars, walVars, auxVars>>

NextFetch ==
    \/ CallSafeFetch
    \/ CallFetchLimited
    \/ NetReject
    \/ NetHeaders
    \/ NetJSON
    \/ NetBadBody
    \/ NetChunk
    \/ NetEnd
    \/ NetStreamError
    \/ Timeout
    \/ Tick

InitF ==
    InitFetch /\ now = 0 /\ InitLiq("off") /\ InitWal(FALSE) /\ InitPairs /\ InitAux

SpecFetch == InitF /\ [][NextFetch]_vars

\* The event loop runs a timer that is armed; the network owes nothing.
FairFetch == SpecFetch /\ WF_vars(Timeout)

\* ------------------------------------------ SpecWallets: the wallet poller
WalFrame == UNCHANGED <<heliusKey, feed, now, fetchVars, liqVars, auxVars>>

\* POST /wallets/add {address, label}
AddWallet ==
    /\ \E a \in Addrs \cup {""}, label \in {"", "alpha"} :
          wallets' = IF a = "" THEN wallets
                     ELSE LET ws1 == getWalletInfo(wallets, a)
                          IN IF label # "" THEN [ws1 EXCEPT ![a].label = label] ELSE ws1
    /\ UNCHANGED <<wfetch, wcyc, wInvoked>>
    /\ WalFrame

\* POST /wallets/remove {address}
RemoveWallet ==
    /\ \E a \in Addrs \cup {""} :
          wallets' = IF a = "" THEN wallets ELSE [wallets EXCEPT ![a] = NoWallet]
    /\ UNCHANGED <<wfetch, wcyc, wInvoked>>
    /\ WalFrame

\* pollWallets(), called 5 s after start-up and by setInterval every
\* WALLET_POLL_MS: without a key it returns; otherwise it starts one
\* fetchWalletSwaps per watched wallet and awaits them all.
pollWallets ==
    /\ wInvoked < MaxWalletCycles
    /\ wInvoked' = wInvoked + 1
    /\ LET k == wInvoked + 1
           started == IF heliusKey
                      THEN {[cycle |-> k, address |-> a, stage |-> "headers"] :
                               a \in {x \in Addrs : wallets[x].present}}
                      ELSE {}
       IN /\ wfetch' = wfetch \cup started
          /\ wcyc' = [wcyc EXCEPT ![k] = IF started = {} THEN "done" ELSE "running"]
    /\ UNCHANGED wallets
    /\ WalFrame

\* A fetchWalletSwaps call not yet settled.
Pending(f) == f.stage \in {"headers", "body"}

\* Faulty variant: the first rejection rejects pollWallets and the calls of the
\* cycle still pending are given up.
SettledFailFast(f, outcome) ==
    IF outcome = "failed"
    THEN /\ wfetch' = {IF g.cycle = f.cycle /\ Pending(g) THEN [g EXCEPT !.stage = "failed"]
                        ELSE g : g \in wfetch}
         /\ wcyc' = [wcyc EXCEPT ![f.cycle] = "rejected"]
    ELSE /\ wfetch' = (wfetch \ {f}) \cup {[f EXCEPT !.stage = outcome]}
         /\ wcyc' = [wcyc EXCEPT ![f.cycle] =
                        IF \E g \in wfetch \ {f} : g.cycle = f.cycle /\ Pending(g)
                        THEN "running" ELSE "done"]

\* One fetchWalletSwaps call settles with outcome "done" (fulfilled) or
\* "failed" (rejected: `.catch` logs it and fulfils). Promise.allSettled
\* resolves, and the cycle ends, once it was the cycle's last pending call.
Settled(f, outcome) ==
    /\ wfetch' = (wfetch \ {f}) \cup {[f EXCEPT !.stage = outcome]}
    /\ wcyc' = [wcyc EXCEPT ![f.cycle] =
                   IF \E g \in wfetch \ {f} : g.cycle = f.cycle /\ Pending(g)
                   THEN "running" ELSE "done"]

\* `await fetch(url)` rejects; fetchWalletSwaps rejects and pollWallets logs it
WalletFetchReject ==
    /\ \E f \in wfetch : f.stage = "headers" /\ Settled(f, "failed")
    /\ UNCHANGED <<wallets, wInvoked>>
    /\ WalFrame

\* `await fetch(url)` resolves (the status is not looked at)
WalletFetchHeaders ==
    /\ \E f \in wfetch :
          /\ f.stage = "headers"
          /\ wfetch' = (wfetch \ {f}) \cup {[f EXCEPT !.stage = "body"]}
    /\ UNCHANGED <<wallets, wcyc, wInvoked>>
    /\ WalFrame

\* `await res.json()` rejects: the body is no JSON
WalletFetchBadBody ==
    /\ \E f \in wfetch : f.stage = "body" /\ Settled(f, "failed")
    /\ UNCHANGED <<wallets, wInvoked>>
    /\ WalFrame

\* `await res.json()` resolves: the answer is ingested in one synchronous run
WalletFetchData ==
    /\ \E f \in wfetch :
       \E ans \in feed[f.address] :
          /\ f.stage = "body"
          /\ LET ws1 == ingest(wallets, f.address, ans)
             IN /\ \A m \in Mints : ws1[f.address].trades[m].swapCount <= MaxSwaps
                /\ wallets' = ws1
          /\ Settled(f, IF IngestThrows(ans) THEN "failed" ELSE "done")
    /\ UNCHANGED wInvoked
    /\ WalFrame

InitW ==
    /\ \E key \in BOOLEAN : InitWal(key)
    /\ now = 0
    /\ InitFetch
    /\ InitLiq("off")
    /\ InitPairs
    /\ InitAux

NextWallets ==
    \/ AddWallet
    \/ RemoveWallet
    \/ pollWallets
    \/ WalletFetchReject
    \/ WalletFetchHeaders
    \/ WalletFetchBadBody
    \/ WalletFetchData

SpecWallets == InitW /\ [][NextWallets]_vars

\* The timers of setTimeout / setInterval fire; fetchWalletSwaps arms no timer
\* of its own and the network owes nothing.
FairWallets == SpecWallets /\ WF_vars(pollWallets)

\* ------------------------- SpecRepoll: the wallet poller on a quiet feed
\* The watcher polling a feed on which nothing new happens: the endpoint
\* answers every request with the same transactions (limit=50 of the newest).
InitR ==
    /\ heliusKey = TRUE
    /\ \E x \in StableAnswers : feed = [a \in Addrs |-> {x}]
    /\ wallets = [a \in Addrs |-> NoWallet]
    /\ wfetch = {}
    /\ wcyc = [k \in WalletCycles |-> "none"]
    /\ wInvoked = 0
    /\ now = 0
    /\ InitFetch
    /\ InitLiq("off")
    /\ InitPairs
    /\ InitAux

SpecRepoll == InitR /\ [][NextWallets]_vars

\* ---------------------------------------------- SpecPairs: the pair poller
PairFrame == UNCHANGED <<pInvoked, lastOp, fetchVars, liqVars, walVars>>

\* pollPairs() (pollSources() in src/server.js), called 2 s after start-up and
\* by setInterval every POLL_INTERVAL_MS: it stamps lastPoll, starts the two fetchLimited calls and
\* awaits them both. Nothing keeps an invocation from starting while an
\* earlier one still awaits its fetches.
pollPairs ==
    /\ pInvoked < MaxPairCycles
    /\ pInvoked' = pInvoked + 1
    /\ \E t \in now..MaxTime :
          /\ now' = t
          /\ pairCache' = [pairCache EXCEPT !.lastPoll = NewDate(t)]
    /\ pcyc' = [pcyc EXCEPT ![pInvoked + 1] =
                   [NoPairCycle EXCEPT !.pc = "fetching",
                                       !.ray = fetchLimited, !.orc = fetchLimited]]
    /\ UNCHANGED <<lastOp, fetchVars, liqVars, walVars>>

\* pollPairs after `await Promise.all`: extract the addresses of both texts, at
\* most 40 of each (30 in pollSources), and upsert them, Raydium's first.
pollPairsIngest(k, c) ==
    LET limit == IF variant = "server" THEN SOURCE_LIMIT ELSE PAIR_LIMIT
        rayAddrs == extractAddressesLimited(c.ray, limit)
        orcAddrs == extractAddressesLimited(c.orc, limit)
        calls == UpsertCalls(rayAddrs, orcAddrs)
    IN \E ts \in ClockReads(now, Len(calls)) :
          /\ pairCache' = [pairCache EXCEPT !.tokens = upsertAll(pairCache.tokens, calls, ts)]
          /\ now' = IF calls = <<>> THEN now ELSE ts[Len(calls)]
          /\ pcyc' = [pcyc EXCEPT ![k] =
                         [NoPairCycle EXCEPT
                             !.pc = "done",
                             !.batch = [i \in 1..Len(calls) |->
                                           [addr |-> calls[i].addr,
                                            source |-> calls[i].source, t |-> ts[i]]]]]

\* What fetchLimited holds of a response it streams: the chunks and their
\* total; res.ok and res.status are never read.
Streaming(c) == [c EXCEPT !.status = "none"]

\* The fetch s of invocation k has moved to c2; once both fetches have returned
\* pollPairs resumes.
PairResume(k, s, c2) ==
    LET c == [pcyc[k] EXCEPT ![s] = IF c2.stage = "returned" THEN ReturnValue(c2)
                                    ELSE Streaming(c2)]
    IN IF c.ray.stage = "returned" /\ c.orc.stage = "returned"
       THEN pollPairsIngest(k, c)
       ELSE /\ pcyc' = [pcyc EXCEPT ![k] = c]
            /\ UNCHANGED <<pairCache, now>>

PairSources == {"ray", "orc"}

PairReject(k, s) ==
    /\ pcyc[k].pc = "fetching" /\ pcyc[k][s].stage = "headers"
    /\ PairResume(k, s, OnReject(pcyc[k][s]))
    /\ PairFrame

PairHeaders(k, s) ==
    /\ pcyc[k].pc = "fetching" /\ pcyc[k][s].stage = "headers"
    /\ \E st \in Statuses : PairResume(k, s, OnHeaders(pcyc[k][s], st))
    /\ PairFrame

PairChunk(k, s) ==
    /\ pcyc[k].pc = "fetching" /\ pcyc[k][s].stage = "body"
    /\ \E len \in 1..MaxChunk, as \in ChunkTexts :
          /\ pcyc[k][s].total + len <= MaxBody
          /\ Len(AppendNew(pcyc[k][s].text, as)) <= MaxNamed
          /\ PairResume(k, s, OnChunk(pcyc[k][s], len, as))
    /\ PairFrame

PairEnd(k, s) ==
    /\ pcyc[k].pc = "fetching" /\ pcyc[k][s].stage = "body"
    /\ PairResume(k, s, OnEnd(pcyc[k][s]))
    /\ PairFrame

PairStreamError(k, s) ==
    /\ pcyc[k].pc = "fetching" /\ pcyc[k][s].stage = "body" /\ ~pcyc[k][s].destroyed
    /\ PairResume(k, s, OnStreamError(pcyc[k][s]))
    /\ PairFrame

PairTimeout(k, s) ==
    /\ pcyc[k].pc = "fetching" /\ pcyc[k][s].stage # "returned" /\ pcyc[k][s].timer
    /\ PairResume(k, s, OnTimeout(pcyc[k][s]))
    /\ PairFrame

InitP ==
    /\ InitPairs
    /\ now = 0
    /\ InitFetch
    /\ \E v \in {"watch", "server"} : InitLiq(v)
    /\ InitWal(FALSE)
    /\ InitAux

NextPairs ==
    \/ pollPairs
    \/ \E k \in PairCycles, s \in PairSources : PairReject(k, s)
    \/ \E k \in PairCycles, s \in PairSources : PairHeaders(k, s)
    \/ \E k \in PairCycles, s \in PairSources : PairChunk(k, s)
    \/ \E k \in PairCycles, s \in PairSources : PairEnd(k, s)
    \/ \E k \in PairCycles, s \in PairSources : PairStreamError(k, s)
    \/ \E k \in PairCycles, s \in PairSources : PairTimeout(k, s)

SpecPairs == InitP /\ [][NextPairs]_vars

\* ------------------------------- SpecLedger: one operation on the ledger
LedgerFrame == UNCHANGED <<heliusKey, feed, wfetch, wcyc, wInvoked, pairCache, pcyc, pInvoked,
                           fetchVars, liqVars>>

\* fetchWalletSwaps(address) from the resolution of res.json() on.
IngestFeed ==
    /\ lastOp = NoOp
    /\ \E a \in Addrs :
       \E ans \in feed[a] :
          /\ wallets' = ingest(wallets, a, ans)
          /\ lastOp' = [NoOp EXCEPT !.op = "ingest", !.address = a, !.ans = ans,
                                    !.threw = IngestThrows(ans), !.before = wallets]
    /\ UNCHANGED now
    /\ LedgerFrame

\* Faulty variant: the evaluation drops the records it counts as no win.
GetWalletsStatsPruning ==
    /\ lastOp = NoOp
    /\ \E t \in EvalTimes :
          /\ now' = t
          /\ lastOp' = [NoOp EXCEPT !.op = "stats", !.at = t, !.before = wallets,
                                    !.report = walletsStats(wallets, t),
                                    !.global = globalStats(wallets, t)]
          /\ wallets' = [a \in Addrs |->
                           [wallets[a] EXCEPT !.trades =
                               [m \in Mints |->
                                   IF isWin(wallets[a].trades[m], t)
                                   THEN wallets[a].trades[m] ELSE NoTrade]]]
    /\ LedgerFrame

\* GET /wallets/stats
GetWalletsStats ==
    /\ lastOp = NoOp
    /\ \E t \in EvalTimes :
          /\ now' = t
          /\ lastOp' = [NoOp EXCEPT !.op = "stats", !.at = t, !.before = wallets,
                                    !.report = walletsStats(wallets, t),
                                    !.global = globalStats(wallets, t)]
    /\ UNCHANGED wallets
    /\ LedgerFrame

InitL ==
    /\ wallets \in Ledgers
    /\ heliusKey = TRUE
    /\ feed = AnyFeed
    /\ wfetch = {}
    /\ wcyc = [k \in WalletCycles |-> "none"]
    /\ wInvoked = 0
    /\ now = 0
    /\ InitFetch
    /\ InitLiq("off")
    /\ InitPairs
    /\ InitAux

NextLedger ==
    \/ IngestFeed
    \/ GetWalletsStats

SpecLedger == InitL /\ [][NextLedger]_vars

\* ================================================================ claims
Committed == writer["activeSource"] # 0

Usable(e) == e.ok /\ e.items > 0

\* The source of the first usable entry of a fetch log, "All failed" if none.
FirstUsable(log) ==
    IF \E k \in 1..Len(log) : Usable(log[k])
    THEN log[CHOOSE k \in 1..Len(log) :
                 Usable(log[k]) /\ \A j \in 1..(k - 1) : ~Usable(log[j])].src
    ELSE "All failed"

\* No fetch of the log gave a usable result: each one failed (network error,
\* timeout, non-2xx status, malformed body) or answered with a body of an
\* unexpected shape or with no items.
Exhausted(log) == \A k \in 1..Len(log) : ~Usable(log[k])

\* C1: in every snapshot pollOnce (v5.3.4) has committed, activeSource is the
\* first source, in the order DexPairs, DexSearch, BirdEye, whose fetch was ok
\* with a non-empty result, and "All failed" iff no source was usable.
C1_FirstUsableSourceWins ==
    (variant = "v534" /\ Committed) =>
        /\ \A k \in 1..Len(cacheLog.chain) : cacheLog.chain[k].src = Chain("v534")[k]
        /\ CACHE.activeSource = FirstUsable(cacheLog.chain)

\* C2: a source that answered ok with zero items is never the committed
\* activeSource, whichever place of the chain it has.
C2_EmptySuccessNeverActive ==
    Committed =>
        \A k \in 1..Len(cacheLog.chain) :
            (cacheLog.chain[k].ok /\ cacheLog.chain[k].items = 0) =>
                CACHE.activeSource # cacheLog.chain[k].src

\* What activeSource says when no source won.
NoWinner == {"All failed", "All Raydium sources failed"}

\* C3: in every committed snapshot backupUsed is true iff a source won and the
\* winner is not the first entry of the chain (so false when none won).
C3_BackupUsedIffLaterSourceWon ==
    Committed =>
        (CACHE.backupUsed <=>
            (CACHE.activeSource \notin NoWinner /\ CACHE.activeSource # Chain(variant)[1]))

C4_Case ==
    /\ variant = "v534" /\ Committed
    /\ Len(cacheLog.chain) >= 2
    /\ ~cacheLog.chain[1].ok
    /\ cacheLog.chain[2].ok /\ cacheLog.chain[2].items > 0

\* C4: when DexPairs failed and DexSearch answered n > 0 pairs, the snapshot
\* has activeSource = DexSearch, backupUsed = true and tokenCount = n plus the
\* Orca count.
C4_SecondSourceSnapshot ==
    C4_Case =>
        /\ CACHE.activeSource = "DexSearch"
        /\ CACHE.backupUsed
        /\ CACHE.tokenCount = JSNumber(cacheLog.chain[2].items + cacheLog.orca)

\* The spec's case: n = 5, Orca yields nothing, tokenCount = 5.
C4_Witness == C4_Case /\ cacheLog.chain[2].items = 5 /\ cacheLog.orca = 0 /\ CACHE.tokenCount = JSNumber(5)

\* C5: every pollOnce (v5.3.4) cycle that starts goes on to commit its
\* snapshot.
C5_EveryStartedCycleCommits ==
    \A i \in Cycles : (variant = "v534" /\ InFlight(i)) ~> (cyc[i].pc = "done")

\* C6: the four snapshot fields a reader observes, and the four fields of
\* CACHE at any moment, were written by one and the same invocation (or are
\* all initial).
C6_SnapshotOfOneCycle ==
    \A f \in Fields, g \in Fields : lastRead[f] = lastRead[g] /\ writer[f] = writer[g]

\* pollDEX: a reader has received the snapshot of the second invocation while
\* the first is still in flight.
C6_Witness ==
    /\ variant = "v51"
    /\ \A f \in Fields : lastRead[f] = 2
    /\ InFlight(1)

\* C7: at most one pollOnce cycle is between its start and its commit, and an
\* invocation that found isPolling set has made no fetch and written nothing.
C7_SingleFlight ==
    variant \in {"v534", "v532"} =>
        /\ Cardinality({i \in Cycles : InFlight(i)}) <= 1
        /\ (isPolling <=> \E i \in Cycles : cyc[i].pc \in {"chain", "orca", "threw"})
        /\ \A i \in Cycles :
              cyc[i].pc = "skipped" =>
                  /\ cyc[i].call = NoCall /\ cyc[i].log = <<>>
                  /\ \A f \in Fields : writer[f] # i

\* An invocation was skipped while another cycle is in flight.
C7_Witness ==
    /\ variant = "v534"
    /\ \E i \in Cycles, j \in Cycles : InFlight(i) /\ cyc[j].pc = "skipped"

\* C9: whatever the outcomes of the fetches (failures of any kind, bodies of
\* any shape), pollOnce (v5.3.4) never rejects and tries the next source after
\* each one that gave nothing usable; a cycle in which no chain source gave a
\* usable result has tried all three and committed "All failed", backupUsed
\* false and the Orca count alone, in a snapshot with lastPoll set.
C9_FailuresRecoveredLocally ==
    variant = "v534" =>
        /\ \A i \in Cycles : cyc[i].pc # "threw"
        /\ \A i \in Cycles : cyc[i].pc = "chain" => Len(cyc[i].log) = cyc[i].idx - 1
        /\ (Committed /\ Exhausted(cacheLog.chain)) =>
              /\ Len(cacheLog.chain) = 3
              /\ CACHE.activeSource = "All failed"
              /\ ~CACHE.backupUsed
              /\ CACHE.tokenCount = JSNumber(cacheLog.orca)
              /\ CACHE.lastPoll.set

\* C8: at most one pollWallets cycle is in flight.
C8_OneWalletCycleInFlight == Cardinality({k \in WalletCycles : wcyc[k] = "running"}) <= 1

\* C10: every call of a fetch helper returns.
C10_EveryFetchReturns == (call.stage # "returned") ~> (call.stage = "returned")

\* C11: a fetchLimited call whose byte count reached maxBytes (so that it
\* destroyed the body stream) returns the bytes received so far as payload.
C11_CapReturnsPayload ==
    (call.helper = "fetchLimited" /\ call.stage = "returned" /\ call.destroyed) =>
        call.result = Payload(call)

\* C12: the bytes fetchLimited holds buffered for one fetch never exceed
\* maxBytes.
C12_BufferWithinCap == call.helper = "fetchLimited" => call.total <= MAX_BYTES

\* C13: a response with a non-success status yields a failure outcome in every
\* fetch helper, and no address is taken from its body.
C13_NonSuccessIsFailure ==
    (call.stage = "returned" /\ call.status = "non2xx") =>
        /\ ~call.result.ok
        /\ extractAddressesLimited(call, PAIR_LIMIT) = <<>>

\* The places of a batch at which address a is reported.
Reported(batch, a) == {i \in 1..Len(batch) : batch[i].addr = a}

MinOf(S) == CHOOSE x \in S : \A y \in S : x <= y

MaxOf(S) == CHOOSE x \in S : \A y \in S : x >= y

\* C14: a batch of upserts inserts each unseen address with the source and the
\* time of its first report (firstSeen = lastSeen = that time until it is
\* reported again), and changes nothing but lastSeen of an entry already there:
\* source and firstSeen never change, also under a different source; steps
\* that are no batch leave the ledger alone.
C14_UpsertWritesOnlyLastSeen ==
    [][/\ (\A k \in PairCycles : ~(pcyc[k].pc = "fetching" /\ pcyc'[k].pc = "done")) =>
              pairCache'.tokens = pairCache.tokens
       /\ \A k \in PairCycles, a \in PairAddrs :
              LET old == pairCache.tokens[a]
                  new == pairCache'.tokens[a]
                  b == pcyc'[k].batch
                  I == Reported(b, a)
              IN (pcyc[k].pc = "fetching" /\ pcyc'[k].pc = "done") =>
                    /\ (old.present /\ I = {}) => new = old
                    /\ (old.present /\ I # {}) =>
                           new = [old EXCEPT !.lastSeen = b[MaxOf(I)].t]
                    /\ (~old.present /\ I = {}) => new = old
                    /\ (~old.present /\ I # {}) =>
                           new = [present |-> TRUE, source |-> b[MinOf(I)].source,
                                  firstSeen |-> b[MinOf(I)].t, lastSeen |-> b[MaxOf(I)].t]
      ]_vars

\* An entry inserted under raydium was reported again, later, under orca.
C14_Witness ==
    /\ pcyc[2].pc = "done"
    /\ \E a \in PairAddrs :
          /\ pairCache.tokens[a].present
          /\ pairCache.tokens[a].source = "raydium"
          /\ pairCache.tokens[a].firstSeen < pairCache.tokens[a].lastSeen
          /\ \E i \in 1..Len(pcyc[2].batch) :
                /\ pcyc[2].batch[i] = [addr |-> a, source |-> "orca",
                                       t |-> pairCache.tokens[a].lastSeen]
                /\ Reported(pcyc[1].batch, a) # {}

\* C15: on every reachable ledger, upsert(a, s, t) applied twice gives what it
\* gives applied once, with firstSeen = lastSeen = t for an address unseen
\* before and every other entry untouched; a later upsert(a, s2, t2 > t) keeps
\* firstSeen and source and sets lastSeen = t2.
C15_UpsertIdempotent ==
    \A a \in PairAddrs, s \in {"raydium", "orca"}, t \in now..MaxTime :
        LET L0 == pairCache.tokens
            L1 == upsertPair(L0, a, s, t)
            L2 == upsertPair(L1, a, s, t)
        IN /\ L2 = L1
           /\ L1[a].present
           /\ \A b \in PairAddrs \ {a} : L1[b] = L0[b]
           /\ ~L0[a].present => L1[a] = [present |-> TRUE, source |-> s,
                                         firstSeen |-> t, lastSeen |-> t]
           /\ \A s2 \in {"raydium", "orca"}, t2 \in (t + 1)..(MaxTime + 1) :
                 upsertPair(L2, a, s2, t2)[a] = [L1[a] EXCEPT !.lastSeen = t2]

\* Two polls reported the same address under the same source at the same
\* instant, and the entry has firstSeen = lastSeen = that instant.
C15_Witness ==
    /\ pcyc[1].pc = "done" /\ pcyc[2].pc = "done"
    /\ \E i \in 1..Len(pcyc[1].batch), j \in 1..Len(pcyc[2].batch) :
          /\ pcyc[1].batch[i] = pcyc[2].batch[j]
          /\ LET e == pairCache.tokens[pcyc[1].batch[i].addr]
             IN e.present /\ e.source = pcyc[1].batch[i].source
                /\ e.firstSeen = pcyc[1].batch[i].t /\ e.lastSeen = pcyc[1].batch[i].t

\* C16: every entry of the pair cache has firstSeen <= lastSeen.
C16_FirstSeenBeforeLastSeen ==
    \A a \in PairAddrs :
        pairCache.tokens[a].present =>
            pairCache.tokens[a].firstSeen <= pairCache.tokens[a].lastSeen

\* An entry seen again after the clock has advanced.
C16_Witness ==
    \E a \in PairAddrs :
        /\ pairCache.tokens[a].present
        /\ pairCache.tokens[a].firstSeen < pairCache.tokens[a].lastSeen
        /\ pInvoked = 2

\* The text of a description or type names a swap venue or kind.
Matches(str) == str \in {"swapped 1 SOL on Orca", "SWAP"}

\* The event refers to mint m.
RefersTo(tx, m) == \E k \in 1..Len(tx.transfers) : tx.transfers[k] = m

\* The events of a feed answer that amount to a swap of mint m: the text the
\* feed classifies the event by (its description, or its type when it has no
\* description) names a swap, and the event refers to m.
SwapsOf(txs, m) ==
    {i \in 1..Len(txs) :
        /\ m # ""
        /\ RefersTo(txs[i], m)
        /\ \/ Matches(txs[i].description)
           \/ (txs[i].description = "" /\ Matches(txs[i].type))}

\* C17: after the ingestion of a feed answer for a wallet, each mint with n > 0
\* swaps in the answer has a record created with firstSeen = the time of the
\* first of them and swapCount = n if the wallet had none, and has swapCount
\* raised by n with firstSeen unchanged otherwise; the records of other mints
\* and of other wallets are unchanged.
C17_RecordSwap ==
    (lastOp.op = "ingest" /\ lastOp.ans.kind = "list") =>
        \A b \in Addrs, m \in Mints :
            LET old == lastOp.before[b].trades[m]
                new == wallets[b].trades[m]
                I == IF b = lastOp.address THEN SwapsOf(lastOp.ans.txs, m) ELSE {}
            IN /\ I = {} => new = old
               /\ (I # {} /\ ~old.seen) =>
                      new = [seen |-> TRUE,
                             firstSeen |-> lastOp.ans.txs[MinOf(I)].timestamp * 1000,
                             swapCount |-> Cardinality(I)]
               /\ (I # {} /\ old.seen) =>
                      new = [old EXCEPT !.swapCount = old.swapCount + Cardinality(I)]

\* A swap of a mint already on record, at another time than its firstSeen, was
\* ingested for a wallet that also holds the other mint, the other wallet being
\* watched too with a record of its own.
C17_Witness ==
    /\ lastOp.op = "ingest" /\ lastOp.ans.kind = "list"
    /\ \E m \in Mints, m2 \in Mints, b \in Addrs :
          /\ m2 # m /\ b # lastOp.address
          /\ SwapsOf(lastOp.ans.txs, m) # {} /\ SwapsOf(lastOp.ans.txs, m2) = {}
          /\ lastOp.before[lastOp.address].trades[m].seen
          /\ lastOp.before[lastOp.address].trades[m].firstSeen
                 # lastOp.ans.txs[1].timestamp * 1000
          /\ wallets[lastOp.address].trades[m].swapCount
                 = lastOp.before[lastOp.address].trades[m].swapCount + 1
          /\ lastOp.before[lastOp.address].trades[m2].seen
          /\ wallets[b].present /\ wallets[b].trades[m].seen

\* The event is outside the swap classification: neither its description nor
\* its type names a swap.
Unclassified(tx) == ~Matches(tx.description) /\ ~Matches(tx.type)

NoMintRef(tx) == \A k \in 1..Len(tx.transfers) : tx.transfers[k] = ""

\* C18: the ingestion of a feed answer whose events are all outside the swap
\* classification or without a mint reference changes no trade record and
\* throws nothing; a trade record changes only if the answer holds a
\* classified event that refers to a mint.
C18_OnlySwapLikeRecorded ==
    (lastOp.op = "ingest" /\ lastOp.ans.kind = "list") =>
        LET txs == lastOp.ans.txs
            changed == \E b \in Addrs : wallets[b].trades # lastOp.before[b].trades
        IN /\ (\A i \in 1..Len(txs) : Unclassified(txs[i]) \/ NoMintRef(txs[i])) =>
                  (~changed /\ ~lastOp.threw)
           /\ changed => \E i \in 1..Len(txs) : ~Unclassified(txs[i]) /\ ~NoMintRef(txs[i])

\* An event of type TRANSFER that refers to a mint on record was ingested and
\* the wallet's records are as before.
C18_Witness ==
    /\ lastOp.op = "ingest" /\ lastOp.ans.kind = "list"
    /\ Len(lastOp.ans.txs) = 1
    /\ Unclassified(lastOp.ans.txs[1]) /\ ~NoMintRef(lastOp.ans.txs[1])
    /\ lastOp.before[lastOp.address].trades["m1"].seen
    /\ wallets = lastOp.before
    /\ ~lastOp.threw

\* C20: the evaluator marks a trade record a win iff the evaluation time minus
\* firstSeen is at least the survival threshold and swapCount >= 2, and a
\* wallet's wins are the number of such records.
C20_WinIffSurvivedAndRepeated ==
    lastOp.op = "stats" =>
        \A a \in Addrs :
            LET w == wallets[a]
                Won == {m \in Mints :
                          /\ w.trades[m].seen
                          /\ lastOp.at - w.trades[m].firstSeen >= WIN_MS
                          /\ w.trades[m].swapCount >= 2}
            IN w.present =>
                  /\ \A m \in Mints : w.trades[m].seen => (lastOp.report[a].win[m] <=> m \in Won)
                  /\ \A m \in Mints :
                        (w.trades[m].seen /\ w.trades[m].swapCount = 1) => ~lastOp.report[a].win[m]
                  /\ \A m \in Mints :
                        (w.trades[m].seen /\ lastOp.at - w.trades[m].firstSeen < WIN_MS) =>
                            ~lastOp.report[a].win[m]
                  /\ lastOp.report[a].wins = Cardinality(Won)

\* One wallet holds a record exactly as old as the threshold with two swaps (a
\* win) and a record as old with one swap (no win); another holds a record
\* with two swaps that is too young (no win).
C20_Witness ==
    /\ lastOp.op = "stats"
    /\ \E a \in Addrs, b \in Addrs, m \in Mints, m2 \in Mints :
          /\ wallets[a].present /\ wallets[b].present
          /\ wallets[a].trades[m].seen /\ wallets[a].trades[m].swapCount = 2
          /\ lastOp.at - wallets[a].trades[m].firstSeen = WIN_MS
          /\ lastOp.report[a].win[m]
          /\ wallets[a].trades[m2].seen /\ wallets[a].trades[m2].swapCount = 1
          /\ lastOp.at - wallets[a].trades[m2].firstSeen >= WIN_MS
          /\ ~lastOp.report[a].win[m2]
          /\ wallets[b].trades[m].seen /\ wallets[b].trades[m].swapCount = 2
          /\ lastOp.at - wallets[b].trades[m].firstSeen < WIN_MS
          /\ ~lastOp.report[b].win[m]

\* The call f fails in the step at hand.
FailsNow(f) == Pending(f) /\ [f EXCEPT !.stage = "failed"] \in wfetch'

\* C19: when one wallet's fetchWalletSwaps call fails (fetch rejection,
\* unparsable or non-list answer), pollWallets does not reject, every other
\* call stays as it is, still to be answered and ingested, and the records of
\* the other wallets are untouched; the cycle ends only when all its calls
\* have settled.
C19_WalletFailureIsolated ==
    [][/\ \A k \in WalletCycles : wcyc'[k] # "rejected"
       /\ \A k \in WalletCycles :
              wcyc'[k] = "done" => \A g \in wfetch' : g.cycle = k => ~Pending(g)
       /\ \A f \in wfetch :
              FailsNow(f) =>
                 /\ \A g \in wfetch \ {f} : g \in wfetch'
                 /\ \A b \in Addrs \ {f.address} : wallets'[b] = wallets[b]
      ]_vars

\* In the one cycle run, the call for w1 failed and the swaps of w2 were
\* recorded.
C19_Witness ==
    /\ wInvoked = 1 /\ wcyc[1] = "done"
    /\ [cycle |-> 1, address |-> "w1", stage |-> "failed"] \in wfetch
    /\ [cycle |-> 1, address |-> "w2", stage |-> "done"] \in wfetch
    /\ \E m \in Mints : wallets["w2"].trades[m].seen

\* The trade records of a wallet, and those among them that are wins at t.
TokensOf(w) == {m \in Mints : w.trades[m].seen}

WinsOf(w, t) ==
    {m \in TokensOf(w) : t - w.trades[m].firstSeen >= WIN_MS /\ w.trades[m].swapCount >= 2}

Abs(x) == IF x < 0 THEN -x ELSE x

\* r is wins / count as a percentage, to the nearest whole number.
IsPercentOf(r, wins, count) == 2 * Abs(r * count - 100 * wins) <= count

\* C21: the winRate reported for a wallet is wins / tokenCount of that wallet
\* (as a percentage rounded to the nearest whole number), and it is 0 when the
\* wallet has no trade record; the global rate is 0 when no wallet has a
\* record.
C21_WinRateIsWinsOverTokens ==
    lastOp.op = "stats" =>
        /\ \A a \in Addrs :
              wallets[a].present =>
                 LET count == Cardinality(TokensOf(wallets[a]))
                     wins == Cardinality(WinsOf(wallets[a], lastOp.at))
                     r == lastOp.report[a]
                 IN /\ r.listed /\ r.tokens = count /\ r.wins = wins
                    /\ count = 0 => r.winRate = 0
                    /\ count > 0 => IsPercentOf(r.winRate, wins, count)
        /\ (\A a \in Addrs : wallets[a].present => TokensOf(wallets[a]) = {})
              => lastOp.global.winRate = 0 /\ lastOp.global.tokens = 0

\* One watched wallet has no record and rate 0, the other has one win among
\* two records and rate 50.
C21_Witness ==
    /\ lastOp.op = "stats"
    /\ \E a \in Addrs, b \in Addrs :
          /\ wallets[a].present /\ TokensOf(wallets[a]) = {}
          /\ lastOp.report[a].winRate = 0
          /\ wallets[b].present /\ Cardinality(TokensOf(wallets[b])) = 2
          /\ Cardinality(WinsOf(wallets[b], lastOp.at)) = 1
          /\ lastOp.report[b].winRate = 50

\* All (wallet, mint) records of the ledger, and the wins among them.
AllTokens == {p \in Addrs \X Mints : wallets[p[1]].present /\ p[2] \in TokensOf(wallets[p[1]])}

AllWins == {p \in AllTokens : p[2] \in WinsOf(wallets[p[1]], lastOp.at)}

\* C22: the global rate is the wins of all wallets over the records of all
\* wallets (as a percentage rounded to the nearest whole number): with one win
\* among two records in one wallet and two among two in the other it is 75.
C22_GlobalRatePooled ==
    lastOp.op = "stats" =>
        /\ lastOp.global.tokens = Cardinality(AllTokens)
        /\ lastOp.global.wins = Cardinality(AllWins)
        /\ AllTokens # {} =>
              IsPercentOf(lastOp.global.winRate, Cardinality(AllWins), Cardinality(AllTokens))
        /\ (Cardinality(AllTokens) = 4 /\ Cardinality(AllWins) = 3) => lastOp.global.winRate = 75

\* One wallet has its single record a win (rate 100), the other has two
\* records and no win (rate 0): the global rate is 33, the mean of the rates 50.
C22_Witness ==
    /\ lastOp.op = "stats"
    /\ \E a \in Addrs, b \in Addrs :
          /\ lastOp.report[a].listed /\ lastOp.report[a].tokens = 1
          /\ lastOp.report[a].winRate = 100
          /\ lastOp.report[b].listed /\ lastOp.report[b].tokens = 2
          /\ lastOp.report[b].winRate = 0
    /\ lastOp.global.winRate = 33

\* C23: answering GET /wallets/stats leaves the ledger as it was: the same
\* wallets, labels and trade records (firstSeen, swapCount).
C23_StatsLeavesLedger ==
    [][lastOp'.op = "stats" =>
          /\ wallets' = wallets
          /\ lastOp'.before = wallets
          /\ \A a \in Addrs :
                /\ wallets'[a].present = wallets[a].present
                /\ wallets'[a].label = wallets[a].label
                /\ \A m \in Mints : wallets'[a].trades[m] = wallets[a].trades[m]
      ]_vars

\* The statistics were asked of a ledger with a labelled wallet holding a
\* record that is no win.
C23_Witness ==
    /\ lastOp.op = "stats"
    /\ \E a \in Addrs, m \in Mints :
          /\ wallets[a].present /\ wallets[a].label = "alpha"
          /\ wallets[a].trades[m].seen /\ ~lastOp.report[a].win[m]
          /\ wallets = lastOp.before

\* C24: a wallet entry comes into existence only by an addWallet request: an
\* address absent from the ledger (never added, or removed since) becomes
\* present only in a step of POST /wallets/add, never in a step that settles a
\* fetchWalletSwaps call.
C24_EntriesOnlyByAddWallet ==
    [][\A a \in Addrs :
          (~wallets[a].present /\ wallets'[a].present) => wfetch' = wfetch
      ]_vars

\* C26: isPolling is always released: the flag is set only while a pollOnce
\* cycle is in flight, so once the cycle has ended, whatever its fetches
\* answered, a later invocation starts a new cycle.
C26_FlagReleased == isPolling => \E i \in Cycles : InFlight(i)

\* C27: in the pair poller lastPoll is committed together with the cycle's
\* results: lastPoll changes only in the step in which a cycle that was
\* fetching writes its addresses to the ledger and ends.
C27_LastPollWithResults ==
    [][pairCache'.lastPoll # pairCache.lastPoll =>
          \E k \in PairCycles : pcyc[k].pc = "fetching" /\ pcyc'[k].pc = "done"
      ]_vars

\* A fetch log follows the chain's order and nothing was fetched after a
\* usable answer.
InPriorityOrder(log) ==
    /\ Len(log) <= Len(Chain("v534"))
    /\ \A k \in 1..Len(log) : log[k].src = Chain("v534")[k]
    /\ \A k \in 1..(Len(log) - 1) : ~Usable(log[k])

\* What the code reads as the count of one answer that carries no list: 0, or
\* the length property the answer has of its own.
LoneReadings ==
    {JSNumber(0)} \cup {JSNumber(n) : n \in LengthNumbers}
    \cup {JSString(Digits(n)) : n \in LengthTexts}

\* C28: within a pollOnce (v5.3.4) cycle the chain sources are fetched in
\* priority order, a source only after every source before it completed
\* without a usable result and none after the winner, and the committed
\* primary count is the count of the one source fetched last: the winner's
\* items, nothing when it failed, and what its answer alone gave as a count
\* when it answered without a list.
C28_StrictPriorityOrder ==
    variant = "v534" =>
        /\ \A i \in Cycles :
              /\ InPriorityOrder(cyc[i].log)
              /\ cyc[i].pc = "chain" =>
                    /\ cyc[i].idx = Len(cyc[i].log) + 1
                    /\ \A k \in 1..Len(cyc[i].log) : ~Usable(cyc[i].log[k])
        /\ Committed =>
              LET log == cacheLog.chain
                  last == log[Len(log)]
              IN /\ Len(log) >= 1
                 /\ InPriorityOrder(log)
                 /\ Usable(last) =>
                       CACHE.tokenCount = JSNumber(last.items + cacheLog.orca)
                 /\ ~last.ok => CACHE.tokenCount = JSNumber(cacheLog.orca)
                 /\ (last.ok /\ ~Usable(last)) =>
                       \E v \in LoneReadings :
                           CACHE.tokenCount = Plus(v, JSNumber(cacheLog.orca))

\* DexPairs answered ok with nothing, DexSearch failed, BirdEye won: its count
\* alone, plus Orca's, is the snapshot's.
C28_Witness ==
    /\ variant = "v534" /\ Committed
    /\ Len(cacheLog.chain) = 3
    /\ cacheLog.chain[1].ok /\ cacheLog.chain[1].items = 0
    /\ ~cacheLog.chain[2].ok
    /\ Usable(cacheLog.chain[3])
    /\ cacheLog.orca > 0
    /\ CACHE.tokenCount = JSNumber(cacheLog.chain[3].items + cacheLog.orca)

\* The transactions the feed holds for an address, and whether one is a swap
\* of mint m.
FeedTxsOf(a) == UNION {{ans.txs[i] : i \in 1..Len(ans.txs)} : ans \in feed[a]}

IsSwapOf(tx, m) == SwapsOf(<<tx>>, m) # {}

\* C25: each distinct swap transaction of the feed adds at most 1 to the
\* swapCount of a (wallet, mint) record, however often polling returns it: the
\* swapCount never exceeds the number of distinct swaps of that mint the feed
\* holds for the wallet.
C25_SwapCountedOnce ==
    \A a \in Addrs, m \in Mints :
        wallets[a].present =>
            wallets[a].trades[m].swapCount
                <= Cardinality({tx \in FeedTxsOf(a) : IsSwapOf(tx, m)})

\* The trade record of mint m after the whole answer was applied to record t.
BatchApplied(t, txs, m) ==
    LET I == SwapsOf(txs, m)
    IN IF I = {} THEN t
       ELSE [seen |-> TRUE,
             firstSeen |-> IF t.seen THEN t.firstSeen ELSE txs[MinOf(I)].timestamp * 1000,
             swapCount |-> t.swapCount + Cardinality(I)]

\* C29: the swaps of one fetch reach the ledger only when that fetch has
\* completed, and all in one step: whenever trade records of a watched wallet
\* change, a fetchWalletSwaps call for it that was awaiting its body ends in
\* that step and the records are those with the whole answer applied.
C29_BatchAppliedAtOnce ==
    [][\A a \in Addrs :
          (wallets'[a].present /\ wallets'[a].trades # wallets[a].trades) =>
              /\ \E f \in wfetch :
                    /\ f.address = a /\ f.stage = "body"
                    /\ [f EXCEPT !.stage = "done"] \in wfetch'
              /\ \E ans \in feed[a] :
                    \A m \in Mints :
                        wallets'[a].trades[m] =
                            BatchApplied(wallets[a].trades[m], ans.txs, m)
      ]_vars

\* The feed holds two swaps of m1, one of them also of m2; after one fetch the
\* wallet has both records, m1 with both swaps counted.
C29_Witness ==
    \E a \in Addrs :
        /\ wallets[a].present
        /\ \E ans \in feed[a] : Cardinality(SwapsOf(ans.txs, "m1")) = 2
        /\ [cycle |-> 1, address |-> a, stage |-> "done"] \in wfetch
        /\ \A f \in wfetch : f.address = a => f.cycle = 1
        /\ wallets[a].trades["m1"].swapCount = 2
        /\ wallets[a].trades["m2"].swapCount = 1

\* C30: firstSeen of a trade record is not later than the time of any swap
\* counted in it, in whatever order the feed lists the swaps.
C30_FirstSeenIsEarliest ==
    \A a \in Addrs, m \in Mints :
        (wallets[a].present /\ wallets[a].trades[m].seen) =>
            \A tx \in FeedTxsOf(a) :
                IsSwapOf(tx, m) => wallets[a].trades[m].firstSeen <= tx.timestamp * 1000

\* C31: every wallet polling cycle completes: a pollWallets invocation that
\* has started its fetches goes on to return.
C31_EveryWalletCycleCompletes ==
    \A k \in WalletCycles : (wcyc[k] = "running") ~> (wcyc[k] = "done")

\* C32: every trade record has swapCount >= 1, and from one state to the next
\* of a wallet that stays watched a record stays on record, its swapCount does
\* not decrease and its firstSeen does not change.
C32_RecordsOnlyGrow ==
    [][\A a \in Addrs, m \in Mints :
          LET old == wallets[a].trades[m]
              new == wallets'[a].trades[m]
          IN /\ new.seen => new.swapCount >= 1
             /\ (wallets[a].present /\ wallets'[a].present /\ old.seen) =>
                   /\ new.seen
                   /\ new.swapCount >= old.swapCount
                   /\ new.firstSeen = old.firstSeen
      ]_vars

\* Two cycles ingested swaps for a wallet: a record first seen at instant 0
\* has reached swapCount 2.
C32_Witness ==
    \E a \in Addrs, m \in Mints :
        /\ wallets[a].present
        /\ wallets[a].trades[m].seen
        /\ wallets[a].trades[m].swapCount = 2
        /\ wallets[a].trades[m].firstSeen = 0
        /\ [cycle |-> 1, address |-> a, stage |-> "done"] \in wfetch
        /\ [cycle |-> 2, address |-> a, stage |-> "done"] \in wfetch

\* The addresses a batch reports under a source.
ReportedBy(batch, s) == {batch[i].addr : i \in {j \in 1..Len(batch) : batch[j].source = s}}

\* C33: the ledger holds one entry per address reported: a poll adds exactly
\* the addresses it reports that were not there, and an address reported by
\* both sources in one cycle gets a single entry with source raydium (or keeps
\* the source it had).
C33_OneEntryPerAddress ==
    [][\A k \in PairCycles :
          (pcyc[k].pc = "fetching" /\ pcyc'[k].pc = "done") =>
              LET b == pcyc'[k].batch
                  ray == ReportedBy(b, "raydium")
                  orc == ReportedBy(b, "orca")
              IN /\ {a \in PairAddrs : pairCache'.tokens[a].present}
                       = {a \in PairAddrs : pairCache.tokens[a].present} \cup ray \cup orc
                 /\ \A a \in ray \cap orc :
                       pairCache'.tokens[a].source =
                           IF pairCache.tokens[a].present
                           THEN pairCache.tokens[a].source ELSE "raydium"
      ]_vars

\* The first cycle reported an address under both sources; its one entry has
\* source raydium and the time of orca's report as lastSeen.
C33_Witness ==
    /\ pcyc[1].pc = "done" /\ pInvoked = 1
    /\ \E a \in PairAddrs :
          /\ a \in ReportedBy(pcyc[1].batch, "raydium")
          /\ a \in ReportedBy(pcyc[1].batch, "orca")
          /\ pairCache.tokens[a].present
          /\ pairCache.tokens[a].source = "raydium"
          /\ pairCache.tokens[a].firstSeen < pairCache.tokens[a].lastSeen

====
